---- MODULE Spec2Model ----
(***************************************************************************)
(* bevy_tile_atlas: TileAtlasBuilder (src/src/tile_atlas.rs) driven against *)
(* a TextureStore (src/src/store.rs).                                       *)
(*                                                                          *)
(* One builder lifetime is modelled: it is constructed by default() or      *)
(* new(size), configured and fed tiles in any order, and consumed by        *)
(* finish.  Option<T> is a sequence of length 0 (None) or 1 (Some).  Vec2   *)
(* components are integer valued (the f32 arithmetic of finish is exact     *)
(* for the magnitudes used here).  Texture data is a sequence of bytes;     *)
(* Rust's 0-based half-open ranges [begin..end) are kept as such and        *)
(* translated to 1-based sequences only in Slice/CopyFromSlice.             *)
(***************************************************************************)
EXTENDS Integers, Sequences, FiniteSets, TLC

VARIABLES tile_size, max_columns, handles, format, auto_format_conversion,
          textures, ret, result, pc

vars == <<tile_size, max_columns, handles, format, auto_format_conversion,
          textures, ret, result, pc>>

\* Largest number of tiles a builder is fed (add_texture is not called beyond it).
MaxTiles == 3
\* Largest max_columns value a caller passes.
MaxCols == 2

None == <<>>
Some(x) == <<x>>

----------------------------------------------------------------------------
(* Texture formats and textures                                            *)

Formats == {"Rgba8UnormSrgb", "R8Unorm", "R16Uint"}

pixel_size(f) ==
    CASE f = "Rgba8UnormSrgb" -> 4
      [] f = "R8Unorm" -> 1
      [] f = "R16Uint" -> 2

\* The formats Texture::convert can read and produce.
Convertible == {"Rgba8UnormSrgb", "R8Unorm"}

Texture(w, h, f, d) == [width |-> w, height |-> h, format |-> f, data |-> d]

\* Bytes of a texture whose k-th byte (0-based) is base + k: no two bytes of
\* one texture are equal and none is zero.
Ramp(n, base) == [k \in 1..n |-> base + k - 1]

\* The images the store holds when the builder is created; a handle is the
\* position of its image in the store.
InitialTextures ==
    << Texture(1, 1, "Rgba8UnormSrgb", <<9, 9, 9, 9>>),
       Texture(2, 1, "Rgba8UnormSrgb", <<7, 7, 7, 7, 7, 7, 7, 7>>),
       Texture(2, 2, "Rgba8UnormSrgb", Ramp(16, 100)),
       Texture(1, 1, "R8Unorm", <<50>>),
       Texture(1, 1, "R16Uint", <<60, 61>>) >>

Refs == 1..Len(InitialTextures)

\* Sizes a caller passes to new() and tile_size().
TileSizes == {<<1, 1>>, <<2, 1>>, <<2, 2>>}

\* TextureStore::get
get(store, handle) ==
    IF handle \in 1..Len(store) THEN Some(store[handle]) ELSE None

\* TextureStore::add: the store with the asset appended and its new handle.
add(store, asset) ==
    [store |-> Append(store, asset), handle |-> Len(store) + 1]

ConvertPixel(from, to, px) ==
    IF from = "R8Unorm" /\ to = "Rgba8UnormSrgb"
    THEN <<px[1], px[1], px[1], 255>>
    ELSE IF from = "Rgba8UnormSrgb" /\ to = "R8Unorm"
    THEN <<(2126 * px[1] + 7152 * px[2] + 722 * px[3]) \div 10000>>
    ELSE px

RECURSIVE ConvertData(_, _, _)
ConvertData(from, to, data) ==
    IF Len(data) = 0 THEN <<>>
    ELSE ConvertPixel(from, to, SubSeq(data, 1, pixel_size(from)))
         \o ConvertData(from, to, SubSeq(data, pixel_size(from) + 1, Len(data)))

\* Texture::convert: None when either format is not supported.
convert(texture, new_format) ==
    IF texture.format \in Convertible /\ new_format \in Convertible
    THEN Some(Texture(texture.width, texture.height, new_format,
                      ConvertData(texture.format, new_format, texture.data)))
    ELSE None

\* Texture::new_fill with the pixel [0, 0, 0, 0].
new_fill(width, height, f) ==
    Texture(width, height, f, [k \in 1..(width * height * pixel_size(f)) |-> 0])

----------------------------------------------------------------------------
(* The builder                                                             *)

Builder(ts, mc, hs, f, afc) ==
    [tile_size |-> ts, max_columns |-> mc, handles |-> hs, format |-> f,
     auto_format_conversion |-> afc]

self == Builder(tile_size, max_columns, handles, format, auto_format_conversion)

Default == Builder(None, None, <<>>, "Rgba8UnormSrgb", TRUE)

New(size) == [Default EXCEPT !.tile_size = Some(size)]

get_tile_size(b) == b.tile_size

len(b) == Len(b.handles)

get_max_columns(b) ==
    IF b.max_columns = None THEN len(b) ELSE b.max_columns[1]

\* What the last call returned, with what the caller could observe just
\* before it: len() and get_tile_size().
NoSize == <<0, 0>>

Ret(op, b) ==
    [op |-> op, handle |-> 0, size |-> None, res |-> "Ok", index |-> 0,
     expected |-> NoSize, found |-> NoSize,
     len_before |-> len(b), size_before |-> get_tile_size(b)]


\* handles left as they are (a setter that forgets to clear).
clear_nothing(hs) == hs

\* TileAtlasBuilder::tile_size: handles.clear()
clear(hs) == <<>>

\* TileAtlasBuilder::tile_size
set_tile_size(b, size) ==
    [b EXCEPT !.tile_size = size, !.handles = clear(b.handles)]

\* TileAtlasBuilder::max_columns
set_max_columns(b, n) == [b EXCEPT !.max_columns = n]

\* TileAtlasBuilder::format
set_format(b, f) == [b EXCEPT !.format = f]

\* TileAtlasBuilder::auto_format_conversion
set_auto_format_conversion(b, flag) == [b EXCEPT !.auto_format_conversion = flag]

\* texture.size.as_vec3().truncate()
SizeOf(texture) == <<texture.width, texture.height>>

\* A test of the width alone.
ExceedsWidth(texture, size) == texture.width > size[1]

\* A test that rejects only a tile too large in both dimensions.
ExceedsBoth(texture, size) ==
    texture.width > size[1] /\ texture.height > size[2]

\* add_texture: the test that rejects a tile.
Exceeds(texture, size) ==
    texture.width > size[1] \/ texture.height > size[2]

\* add_texture: the error of a rejected tile.
InvalidTileSize(size, texture) ==
    [res |-> "InvalidTileSize", expected |-> size, found |-> SizeOf(texture)]

\* The detected size with its components swapped.
new_size_swapped(texture) == <<texture.height, texture.width>>

\* add_texture: the tile size detected from the first tile.
new_size(texture) == SizeOf(texture)

\* The length after the push (an index one too large).
PushedLen(hs) == Len(hs)

\* add_texture: the index returned, computed after the push.
PushedIndex(hs) == Len(hs) - 1

\* TileAtlasBuilder::add_texture: the builder after the call and the value
\* returned.
add_texture(b, texture_handle, texture) ==
    IF b.tile_size # None /\ Exceeds(texture, b.tile_size[1])
    THEN [self |-> b,
          ret |-> [Ret("add_texture", b) EXCEPT
                     !.handle = texture_handle,
                     !.res = InvalidTileSize(b.tile_size[1], texture).res,
                     !.expected = InvalidTileSize(b.tile_size[1], texture).expected,
                     !.found = InvalidTileSize(b.tile_size[1], texture).found]]
    ELSE LET sized == IF b.tile_size = None
                      THEN [b EXCEPT !.tile_size = Some(new_size(texture))]
                      ELSE b
             pushed == [sized EXCEPT !.handles = Append(b.handles, texture_handle)]
         IN [self |-> pushed,
             ret |-> [Ret("add_texture", b) EXCEPT
                        !.handle = texture_handle,
                        !.index = PushedIndex(pushed.handles)]]

----------------------------------------------------------------------------
(* finish                                                                  *)

\* data[begin..end] is in range
InRange(data, begin, end) == begin <= end /\ end <= Len(data)

\* &data[begin..end]
Slice(data, begin, end) == SubSeq(data, begin + 1, end)

\* data[begin..end].copy_from_slice(src)
CopyFromSlice(data, begin, end, src) ==
    [k \in 1..Len(data) |->
        IF k > begin /\ k <= end THEN src[k - begin] ELSE data[k]]

\* copy_texture_to_atlas: the rows texture_y.. of the loop over
\* (rect_y..rect_y + rect_height).enumerate(); ok is FALSE when a slice
\* index is out of range (the call panics).
RECURSIVE CopyRows(_, _, _, _, _, _, _, _)
CopyRows(data, src, texture_y, rect_x, rect_y, rect_width, rect_height, atlas_width_fs) ==
    IF texture_y >= rect_height THEN [ok |-> TRUE, data |-> data]
    ELSE LET atlas_width == atlas_width_fs[1]
             format_size == atlas_width_fs[2]
             bound_y == rect_y + texture_y
             begin == (bound_y * atlas_width + rect_x) * format_size
             end == begin + rect_width * format_size
             texture_begin == texture_y * rect_width * format_size
             texture_end == texture_begin + rect_width * format_size
         IN IF InRange(data, begin, end) /\ InRange(src, texture_begin, texture_end)
            THEN CopyRows(CopyFromSlice(data, begin, end,
                                        Slice(src, texture_begin, texture_end)),
                          src, texture_y + 1, rect_x, rect_y, rect_width,
                          rect_height, atlas_width_fs)
            ELSE [ok |-> FALSE, data |-> data]

\* TileAtlasBuilder::copy_texture_to_atlas
copy_texture_to_atlas(b, atlas_texture, texture, column_index, row_index) ==
    LET size == b.tile_size[1]
        rect_width == size[1]
        rect_height == size[2]
        rect_x == column_index * size[1]
        rect_y == row_index * size[2]
        atlas_width == atlas_texture.width
        format_size == pixel_size(atlas_texture.format)
        rows == CopyRows(atlas_texture.data, texture.data, 0, rect_x, rect_y,
                         rect_width, rect_height, <<atlas_width, format_size>>)
    IN [ok |-> rows.ok, atlas |-> [atlas_texture EXCEPT !.data = rows.data]]

\* TileAtlasBuilder::copy_converted_texture
copy_converted_texture(b, atlas_texture, texture, column_index, row_index) ==
    IF b.format = texture.format
    THEN copy_texture_to_atlas(b, atlas_texture, texture, column_index, row_index)
    ELSE IF convert(texture, b.format) # None
    THEN copy_texture_to_atlas(b, atlas_texture, convert(texture, b.format)[1],
                               column_index, row_index)
    ELSE [ok |-> TRUE, atlas |-> atlas_texture]

\* No test for an atlas without tiles.
NeverEmpty(total) == FALSE

\* A row count of total / cols + 1 (one row too many when cols divides total).
TotalRowsPlusOne(total, cols) ==
    IF cols = 0 THEN 0 ELSE total \div cols + 1

\* finish: the test for an atlas without tiles
IsEmpty(total) == total = 0

\* finish: ((total as f32) / get_max_columns() as f32).ceil() as usize.
\* cols is 0 only when max_columns is unset and total is 0: 0.0 / 0.0 is NaN,
\* which `as usize` turns into 0.
TotalRows(total, cols) ==
    IF cols = 0 THEN 0 ELSE (total + cols - 1) \div cols

\* An insertion that keeps the index a reference already has.
insert_if_absent(map, handle, index) ==
    [k \in DOMAIN map \cup {handle} |-> IF k \in DOMAIN map THEN map[k] ELSE index]

\* finish: texture_handles.insert(handle.clone_weak(), index)
insert(map, handle, index) ==
    [k \in DOMAIN map \cup {handle} |-> IF k = handle THEN index ELSE map[k]]

\* finish: the rectangle of the cell at (col_idx, row_idx)
Rect(size, col_idx, row_idx) ==
    LET min == <<col_idx * size[1], row_idx * size[2]>>
    IN [min |-> min, max |-> <<min[1] + size[1], min[2] + size[2]>>]

\* finish: whether the tile after `index` starts a new row
Wraps(index, cols) == (index + 1) % cols = 0

EmptyMap == [k \in {} |-> 0]

\* What finish returns: Ok(TextureAtlas) or Err(..); "panic" when it unwinds.
Outcome(status) ==
    [status |-> status, size |-> NoSize, texture |-> 0, textures |-> <<>>,
     texture_handles |-> EmptyMap]

\* finish: Err(TileAtlasBuilderError::EmptyAtlas)
EmptyAtlas == Outcome("EmptyAtlas")

\* finish: one iteration of the loop over handles.iter().enumerate()
FinishStep(b, store, index, acc) ==
    LET handle == b.handles[index + 1]
        found == get(store, handle)
    IN IF found = None THEN [acc EXCEPT !.status = "panic"]
       ELSE
       LET texture == found[1]
           recorded == [acc EXCEPT
               !.texture_handles = insert(acc.texture_handles, handle, index),
               !.texture_rects = Append(acc.texture_rects,
                                        Rect(b.tile_size[1], acc.col_idx, acc.row_idx))]
       IN IF texture.format # b.format /\ ~b.auto_format_conversion
          THEN [recorded EXCEPT !.status = "Internal"]
          ELSE LET copied == copy_converted_texture(b, acc.atlas_texture, texture,
                                                    acc.col_idx, acc.row_idx)
               IN IF ~copied.ok THEN [recorded EXCEPT !.status = "panic"]
                  ELSE IF Wraps(index, get_max_columns(b))
                  THEN [recorded EXCEPT !.atlas_texture = copied.atlas,
                                        !.row_idx = acc.row_idx + 1,
                                        !.col_idx = 0]
                  ELSE [recorded EXCEPT !.atlas_texture = copied.atlas,
                                        !.col_idx = acc.col_idx + 1]

RECURSIVE FinishLoop(_, _, _, _)
FinishLoop(b, store, index, acc) ==
    IF index >= len(b) \/ acc.status # "running" THEN acc
    ELSE FinishLoop(b, store, index + 1, FinishStep(b, store, index, acc))

\* TileAtlasBuilder::finish: what it returns and the store it leaves.
finish(b, store) ==
    LET total == len(b) IN
    IF IsEmpty(total) THEN [result |-> EmptyAtlas, store |-> store]
    ELSE IF b.tile_size = None
    THEN [result |-> Outcome("panic"), store |-> store]
    ELSE
    LET size == b.tile_size[1]
        total_rows == TotalRows(total, get_max_columns(b))
        atlas_texture == new_fill(get_max_columns(b) * size[1],
                                  total_rows * size[2], b.format)
        acc == FinishLoop(b, store, 0,
                          [status |-> "running", row_idx |-> 0, col_idx |-> 0,
                           texture_handles |-> EmptyMap, texture_rects |-> <<>>,
                           atlas_texture |-> atlas_texture])
    IN IF acc.status # "running"
       THEN [result |-> Outcome(acc.status), store |-> store]
       ELSE LET added == add(store, acc.atlas_texture)
            IN [result |-> [status |-> "Ok",
                            size |-> SizeOf(acc.atlas_texture),
                            texture |-> added.handle,
                            textures |-> acc.texture_rects,
                            texture_handles |-> acc.texture_handles],
                store |-> added.store]

----------------------------------------------------------------------------
(* The state machine                                                       *)

\* Arguments of the tile-size setter.
Sizes == {None} \cup {Some(s) : s \in TileSizes}

\* Column limits a caller passes: unset or positive.
Columns == {None} \cup {Some(n) : n \in 1..MaxCols}

SetBuilder(b) ==
    /\ tile_size' = b.tile_size
    /\ max_columns' = b.max_columns
    /\ handles' = b.handles
    /\ format' = b.format
    /\ auto_format_conversion' = b.auto_format_conversion

Init ==
    /\ \E b \in {Default} \cup {New(s) : s \in TileSizes} :
          /\ tile_size = b.tile_size
          /\ max_columns = b.max_columns
          /\ handles = b.handles
          /\ format = b.format
          /\ auto_format_conversion = b.auto_format_conversion
          /\ ret = Ret("new", b)
    /\ textures = InitialTextures
    /\ result = Outcome("none")
    /\ pc = "building"

TileSize ==
    /\ pc = "building"
    /\ \E size \in Sizes :
          /\ SetBuilder(set_tile_size(self, size))
          /\ ret' = [Ret("tile_size", self) EXCEPT !.size = size]
    /\ UNCHANGED <<textures, result, pc>>

MaxColumns ==
    /\ pc = "building"
    /\ \E n \in Columns :
          /\ SetBuilder(set_max_columns(self, n))
          /\ ret' = Ret("max_columns", self)
    /\ UNCHANGED <<textures, result, pc>>

Format ==
    /\ pc = "building"
    /\ \E f \in Formats :
          /\ SetBuilder(set_format(self, f))
          /\ ret' = Ret("format", self)
    /\ UNCHANGED <<textures, result, pc>>

AutoFormatConversion ==
    /\ pc = "building"
    /\ \E flag \in BOOLEAN :
          /\ SetBuilder(set_auto_format_conversion(self, flag))
          /\ ret' = Ret("auto_format_conversion", self)
    /\ UNCHANGED <<textures, result, pc>>

\* The caller passes a handle with the image the store holds for it
\* (examples/atlas.rs: textures.get(handle.id()), then add_texture).
AddTexture ==
    /\ pc = "building"
    /\ len(self) < MaxTiles
    /\ \E handle \in Refs :
          LET called == add_texture(self, handle, get(textures, handle)[1])
          IN /\ SetBuilder(called.self)
             /\ ret' = called.ret
    /\ UNCHANGED <<textures, result, pc>>

Finish ==
    /\ pc = "building"
    /\ LET called == finish(self, textures)
       IN /\ result' = called.result
          /\ textures' = called.store
    /\ ret' = Ret("finish", self)
    /\ pc' = "done"
    /\ UNCHANGED <<tile_size, max_columns, handles, format, auto_format_conversion>>

Next ==
    \/ TileSize
    \/ MaxColumns
    \/ Format
    \/ AutoFormatConversion
    \/ AddTexture
    \/ Finish

Spec == Init /\ [][Next]_vars

----------------------------------------------------------------------------
(* Vocabulary of the properties                                            *)

N == Len(handles)

\* The tile added at position i (0-based), as the store holds it.
Tile(i) == InitialTextures[handles[i + 1]]

\* The candidate of the add_texture call that returned ret.
Candidate(r) == InitialTextures[r.handle]

TileWidth == tile_size[1][1]

TileHeight == tile_size[1][2]

\* The column count the layout uses.
Cols == IF max_columns = None THEN N ELSE max_columns[1]

\* ceil(n / d) for d > 0
Ceil(n, d) == CHOOSE r \in 0..n : r * d >= n /\ (r = 0 \/ (r - 1) * d < n)

Finished == pc = "done"

Succeeded == Finished /\ result.status = "Ok"

\* The composed image of a successful finish.
Atlas == textures[result.texture]

\* The bytes of the pixel (x, y) of an image.
PixelAt(img, x, y) ==
    LET fs == pixel_size(img.format)
        at == (y * img.width + x) * fs
    IN [k \in 1..fs |-> img.data[at + k]]

ZeroPixel(f) == [k \in 1..pixel_size(f) |-> 0]

\* What finish has to put in the cell of a tile: the tile itself, the tile
\* converted to the target format, or nothing when the conversion fails.
Blitted(tile) ==
    IF tile.format = format THEN tile
    ELSE IF convert(tile, format) # None THEN convert(tile, format)[1]
    ELSE new_fill(tile.width, tile.height, format)

\* The rectangle rect of the atlas holds the image img in its top-left corner
\* and zeroes in the rest.
CellHolds(atlas, rect, img) ==
    \A x \in 0..(rect.max[1] - rect.min[1] - 1), y \in 0..(rect.max[2] - rect.min[2] - 1) :
        PixelAt(atlas, rect.min[1] + x, rect.min[2] + y) =
            IF x < img.width /\ y < img.height THEN PixelAt(img, x, y)
            ELSE ZeroPixel(atlas.format)

\* The grid cell of index i.
GridCell(i) ==
    [min |-> <<(i % Cols) * TileWidth, (i \div Cols) * TileHeight>>,
     max |-> <<(i % Cols) * TileWidth + TileWidth,
               (i \div Cols) * TileHeight + TileHeight>>]

InCell(rect, x, y) ==
    /\ rect.min[1] <= x /\ x < rect.max[1]
    /\ rect.min[2] <= y /\ y < rect.max[2]

BuilderUnchanged ==
    UNCHANGED <<tile_size, max_columns, handles, format, auto_format_conversion>>

----------------------------------------------------------------------------
(* C1 *)

\* C1 as stated: after a successful finish over N added tiles the rectangle
\* list and the reference->index map both have N entries, rectangle i is the
\* cell that holds the i-th tile, and the map sends the i-th tile's reference
\* to i, duplicates of a reference included.
C1_AsStated ==
    Succeeded =>
        /\ Len(result.textures) = N
        /\ Cardinality(DOMAIN result.texture_handles) = N
        /\ \A i \in 0..(N - 1) :
              /\ CellHolds(Atlas, result.textures[i + 1], Blitted(Tile(i)))
              /\ handles[i + 1] \in DOMAIN result.texture_handles
              /\ result.texture_handles[handles[i + 1]] = i

\* C1 (amended): after a successful finish over N added tiles the rectangle
\* list has N entries and rectangle i is the cell that holds the i-th tile;
\* the map has one entry per distinct reference and sends each reference to
\* the index of its last addition (so to i for the i-th tile whenever no
\* reference is added twice, the map then having N entries).
C1_OrderPreserved ==
    Succeeded =>
        /\ Len(result.textures) = N
        /\ \A i \in 0..(N - 1) :
              CellHolds(Atlas, result.textures[i + 1], Blitted(Tile(i)))
        /\ DOMAIN result.texture_handles = {handles[k] : k \in 1..N}
        /\ \A r \in DOMAIN result.texture_handles :
              LET i == result.texture_handles[r]
              IN /\ i \in 0..(N - 1)
                 /\ handles[i + 1] = r
                 /\ \A j \in (i + 1)..(N - 1) : handles[j + 1] # r
        /\ (Cardinality({handles[k] : k \in 1..N}) = N =>
              /\ Cardinality(DOMAIN result.texture_handles) = N
              /\ \A i \in 0..(N - 1) : result.texture_handles[handles[i + 1]] = i)

\* A successful finish over three tiles of which the first and the last are
\* the same reference.
C1_Witness ==
    /\ Succeeded
    /\ N = 3
    /\ handles[1] = handles[3]
    /\ handles[2] # handles[1]

----------------------------------------------------------------------------
(* C2 *)

\* C2: after a successful finish over N >= 1 tiles with cols = max_columns,
\* or N when unset, the composed image is (cols * tw) x (ceil(N / cols) * th)
\* and rectangle i has min = ((i mod cols) * tw, (i div cols) * th) and
\* max = min + (tw, th).
C2_GridLayout ==
    Succeeded =>
        /\ N >= 1
        /\ result.size = <<Cols * TileWidth, Ceil(N, Cols) * TileHeight>>
        /\ Atlas.width = Cols * TileWidth
        /\ Atlas.height = Ceil(N, Cols) * TileHeight
        /\ Len(Atlas.data) = Atlas.width * Atlas.height * pixel_size(format)
        /\ Len(result.textures) = N
        /\ \A i \in 0..(N - 1) : result.textures[i + 1] = GridCell(i)
        /\ (max_columns = None => result.size = <<N * TileWidth, TileHeight>>)

\* Three tiles wrapped at two columns: the third starts the second row.
C2_Witness ==
    /\ Succeeded
    /\ N = 3
    /\ max_columns = Some(2)
    /\ result.textures[3].min = <<0, TileHeight>>
    /\ result.size = <<2 * TileWidth, 2 * TileHeight>>

----------------------------------------------------------------------------
(* C3 *)

\* C3: when every tile held has the target format (each was accepted, so it
\* is as large as the cell or smaller), finish completes, the atlas holds
\* pixel (x, y) of tile i at (col * tw + x, row * th + y), the rest of the
\* cell is zero, and no byte outside the cells of the tiles is written.
C3_BlitEveryAcceptedTile ==
    (Finished /\ N >= 1 /\ \A i \in 0..(N - 1) : Tile(i).format = format) =>
        /\ result.status = "Ok"
        /\ \A i \in 0..(N - 1) : CellHolds(Atlas, GridCell(i), Tile(i))
        /\ \A x \in 0..(Atlas.width - 1), y \in 0..(Atlas.height - 1) :
              (\A i \in 0..(N - 1) : ~InCell(GridCell(i), x, y)) =>
                  PixelAt(Atlas, x, y) = ZeroPixel(format)

----------------------------------------------------------------------------
(* C4 *)

\* C4: a successful add_texture returns the number of tiles held just before
\* the call and appends exactly its reference, leaving the earlier positions
\* as they were; a rejected call leaves the list as it was.
C4_IndexIsPosition ==
    [][ret'.op = "add_texture" =>
          IF ret'.res = "Ok"
          THEN /\ ret'.index = Len(handles)
               /\ Len(handles') = Len(handles) + 1
               /\ handles' = Append(handles, ret'.handle)
          ELSE handles' = handles]_vars

\* The third successful add_texture of a builder returned 2.
C4_Witness ==
    /\ ret.op = "add_texture"
    /\ ret.res = "Ok"
    /\ ret.index = 2
    /\ N = 3

----------------------------------------------------------------------------
(* C5 *)

\* C5: with a tile size set, a candidate wider or higher than it is rejected
\* with InvalidTileSize{expected = tile size, found = candidate's size} and
\* the builder is unchanged; a candidate that fits in both dimensions is
\* accepted.
C5_RejectLeavesBuilder ==
    [][(ret'.op = "add_texture" /\ tile_size # None) =>
          IF \/ Candidate(ret').width > TileWidth
             \/ Candidate(ret').height > TileHeight
          THEN /\ ret'.res = "InvalidTileSize"
               /\ ret'.expected = tile_size[1]
               /\ ret'.found = <<Candidate(ret').width, Candidate(ret').height>>
               /\ BuilderUnchanged
          ELSE ret'.res = "Ok"]_vars

\* A builder holding a tile has rejected a candidate that is too high only.
C5_Witness ==
    /\ ret.op = "add_texture"
    /\ ret.res = "InvalidTileSize"
    /\ ret.found[1] <= ret.expected[1]
    /\ ret.found[2] > ret.expected[2]
    /\ N >= 1

----------------------------------------------------------------------------
(* C6 *)

\* C6: without a tile size, add_texture of a (w, h) tile succeeds and sets
\* the tile size to (w, h); a successful add_texture on a builder with a tile
\* size leaves it; a (w + 1, h) tile is rejected against a (w, h) tile size
\* with InvalidTileSize{expected: (w, h), found: (w + 1, h)}.
C6_AutoDetection ==
    [][ret'.op = "add_texture" =>
          /\ (tile_size = None =>
                /\ ret'.res = "Ok"
                /\ tile_size' = Some(<<Candidate(ret').width, Candidate(ret').height>>))
          /\ (tile_size # None /\ ret'.res = "Ok" => tile_size' = tile_size)
          /\ (/\ tile_size # None
              /\ Candidate(ret').width = TileWidth + 1
              /\ Candidate(ret').height = TileHeight
              => /\ ret'.res = "InvalidTileSize"
                 /\ ret'.expected = <<TileWidth, TileHeight>>
                 /\ ret'.found = <<TileWidth + 1, TileHeight>>
                 /\ tile_size' = tile_size)]_vars

\* The tile size 2x1 was detected from the first tile of a builder.
C6_Witness ==
    /\ ret.op = "add_texture"
    /\ ret.res = "Ok"
    /\ ret.size_before = None
    /\ tile_size = Some(<<2, 1>>)
    /\ N = 1

----------------------------------------------------------------------------
(* C7 *)

\* C7: over N >= 1 tiles of which one has another format than the target:
\* with auto-conversion off finish returns the Internal error and the store
\* is as before; with auto-conversion on finish succeeds, records a rectangle
\* and a map entry for every tile, and a tile that cannot be converted leaves
\* its cell zero.
C7_FormatPolicy ==
    (Finished /\ N >= 1 /\ \E i \in 0..(N - 1) : Tile(i).format # format) =>
        IF auto_format_conversion
        THEN /\ result.status = "Ok"
             /\ Len(result.textures) = N
             /\ DOMAIN result.texture_handles = {handles[k] : k \in 1..N}
             /\ \A i \in 0..(N - 1) :
                   (Tile(i).format # format /\ convert(Tile(i), format) = None) =>
                       CellHolds(Atlas, GridCell(i), new_fill(0, 0, format))
        ELSE /\ result.status = "Internal"
             /\ textures = InitialTextures

----------------------------------------------------------------------------
(* C8 *)

\* C8: finish on a builder without tiles returns EmptyAtlas, whatever its
\* configuration, produces no image and leaves the store as it was.
C8_EmptyAtlas ==
    [][(pc = "building" /\ pc' = "done" /\ Len(handles) = 0) =>
          /\ result'.status = "EmptyAtlas"
          /\ result'.texture = 0
          /\ result'.textures = <<>>
          /\ textures' = textures]_vars

\* finish returned EmptyAtlas on a builder with a tile size, a column limit
\* and another format than the default one.
C8_Witness ==
    /\ Finished
    /\ result.status = "EmptyAtlas"
    /\ tile_size # None
    /\ max_columns # None
    /\ format # "Rgba8UnormSrgb"
    /\ textures = InitialTextures

----------------------------------------------------------------------------
(* C9 *)

\* C9: the tile-size setter leaves no tile and the size it was given, None
\* included, and the next successful add_texture returns 0; the max-columns
\* setter leaves the tile list and the tile size as they were.
C9_SetterClears ==
    [][/\ (ret'.op = "tile_size" =>
             /\ Len(handles') = 0
             /\ tile_size' = ret'.size)
       /\ ((ret.op = "tile_size" /\ ret'.op = "add_texture" /\ ret'.res = "Ok") =>
             ret'.index = 0)
       /\ (ret'.op = "max_columns" =>
             /\ handles' = handles
             /\ tile_size' = tile_size)]_vars

\* The setter was called with None on a builder that held two tiles.
C9_Witness ==
    /\ ret.op = "tile_size"
    /\ ret.len_before = 2
    /\ ret.size_before # None
    /\ ret.size = None
    /\ N = 0
    /\ tile_size = None

----------------------------------------------------------------------------
(* C10 *)

\* C10: a builder that holds a tile has a tile size, and every tile it holds
\* is at most as wide and as high as it; finish on such a builder does not
\* unwind for want of a tile size.
C10_TilesFit ==
    N >= 1 =>
        /\ tile_size # None
        /\ \A i \in 0..(N - 1) :
              /\ Tile(i).width <= TileWidth
              /\ Tile(i).height <= TileHeight

\* A builder holds two tiles, one of them smaller than the tile size.
C10_Witness ==
    /\ pc = "building"
    /\ N = 2
    /\ tile_size # None
    /\ \E i \in 0..(N - 1) : Tile(i).width < TileWidth

====
